---- MODULE Spec2Model ----
(***************************************************************************)
(* A model of ssh-parallels (src/main.go): main, listVMs,                  *)
(* VM.testCommandExists, VM.getIps, compareMac, VM.showIpAddress,          *)
(* listBox (drawContent, moveUp, moveDown, displayAndSelect),              *)
(* askForUsername and sshLogin.                                            *)
(*                                                                         *)
(* Strings the code slices or prefix-tests (MAC addresses, hardware keys,  *)
(* whereis output) are sequences of one-character strings; strings the     *)
(* code only copies, compares or measures are TLA+ strings.                *)
(***************************************************************************)
EXTENDS Integers, Sequences, FiniteSets, TLC

VARIABLES
    pc,            \* position of main: "start", "loop", "list_init", "list",
                   \* "prompt_init", "prompt", "ssh", "done", "crashed"
    args,          \* the command line: [help, ask, user], user <<>> when not given
    prlctl,        \* what `prlctl list -a --info -j` gives: [err, json, list]
    vmIdx,         \* number of VMs main's loop has finished with
    lastProbe,     \* what the last vm.showIpAddress() call did and returned
    availableIps,  \* main's availableIps
    lb,            \* the listBox
    term,          \* terminal size <<tw, th>> as termbox.Size() reports it
    holders,       \* sessions that called termbox.Init and not yet termbox.Close
    lbRet,         \* what displayAndSelect returned: [by, index, err]
    name,          \* askForUsername's buffer, a sequence of bytes
    askRet,        \* what askForUsername returned: [by, name, err]
    lbEv,          \* the last event the list view took from PollEvent
    out,           \* lines printed by main / listVMs, in order
    launched,      \* the ssh command sshLogin ran, or NoLaunch
    crash,         \* the source place of a run-time panic, or "" when none
    probed,        \* what each vm.showIpAddress() call of main's loop returned:
                   \* [err, addrs, panic], in call order
    norm,          \* one MAC put through compareMac's normalisation
    scan           \* one command output put through getIps's scanner

vars == <<pc, args, prlctl, norm, scan, probed, vmIdx, lastProbe,
          availableIps, lb, term,
          holders, lbRet, name, askRet, lbEv, out, launched, crash>>

\* neither a MAC normalisation nor a scan is going on
NoNorm == [stage |-> "none"]
NoScan == [stage |-> "none"]

(***************************************************************************)
(* Bounds of the model.                                                    *)
(***************************************************************************)
MaxVMs == 2        \* VMs in the inventory
MaxAdapters == 2   \* entries of one VM's Hardware map
MaxName == 3       \* bytes in the username buffer

(***************************************************************************)
(* Small helpers on sequences.                                             *)
(***************************************************************************)
RECURSIVE Concat(_)
Concat(ss) == IF ss = <<>> THEN <<>> ELSE Head(ss) \o Concat(Tail(ss))

Perms(S) == { f \in [1..Cardinality(S) -> S] :
                \A i, j \in 1..Cardinality(S) : i # j => f[i] # f[j] }

\* strings.HasPrefix
HasPrefix(s, p) == Len(s) >= Len(p) /\ SubSeq(s, 1, Len(p)) = p

\* strings.ToLower on the letters a MAC address can hold
LowerCh(c) ==
    CASE c = "A" -> "a" [] c = "B" -> "b" [] c = "C" -> "c"
      [] c = "D" -> "d" [] c = "E" -> "e" [] c = "F" -> "f"
      [] OTHER -> c

\* lines 242-243 with the strings.ToLower call of line 242 left out
ToLowerIdentity(s) == s

ToLower(s) == [i \in 1..Len(s) |-> LowerCh(s[i])]

\* strings.Trim(s, " ")
RECURSIVE TrimLeft(_)
TrimLeft(s) == IF s # <<>> /\ Head(s) = " " THEN TrimLeft(Tail(s)) ELSE s

RECURSIVE TrimRight(_)
TrimRight(s) ==
    IF s # <<>> /\ s[Len(s)] = " " THEN TrimRight(SubSeq(s, 1, Len(s) - 1)) ELSE s

Trim(s) == TrimRight(TrimLeft(s))

(***************************************************************************)
(* Values of a map[string]interface{}: a JSON bool, a JSON string, or      *)
(* absent (nil).                                                           *)
(***************************************************************************)
Nil == [t |-> "nil"]
JBool(b) == [t |-> "bool", v |-> b]
JStr(s) == [t |-> "string", v |-> s]

\* x == true, for an interface{} x
IsTrue(x) == x.t = "bool" /\ x.v = TRUE

\* s, _ := x.(string) : the string, or "" when x holds no string
AsString(x) == IF x.t = "string" THEN x.v ELSE <<>>

(***************************************************************************)
(* compareMac.  A slice expression m[a:b] panics when b > len(m); the      *)
(* first one to do so decides the outcome, so the call panics exactly when *)
(* len(prlMac) < 10.  The result is "panic", "equal" or "differ".          *)
(***************************************************************************)
Colon == <<":">>

FormatMac(m) ==
    SubSeq(m, 1, 2) \o Colon \o SubSeq(m, 3, 4) \o Colon \o SubSeq(m, 5, 6)
      \o Colon \o SubSeq(m, 7, 8) \o Colon \o SubSeq(m, 9, 10) \o Colon
      \o SubSeq(m, 11, Len(m))

\* lines 242-243: the form compareMac brings prlMac into before it compares;
\* the slices panic when len(prlMac) < 10
normalizeMac(prlMac) ==
    LET m == ToLower(prlMac)
    IN  IF Len(m) < 10 THEN [panic |-> TRUE, m |-> <<>>]
        ELSE [panic |-> FALSE, m |-> FormatMac(m)]

compareMac(linuxMac, prlMac) ==
    LET n == normalizeMac(prlMac)
    IN  IF n.panic THEN "panic"
        ELSE IF linuxMac = n.m THEN "equal" ELSE "differ"

(***************************************************************************)
(* Lines of guest output.  A line is what the scanner and the five         *)
(* patterns can tell about it: whether it is empty, whether its first byte *)
(* is a space or a tab, and which pattern finds what in it.                *)
(*   HeadLine("2: ", "eth0")  2: eth0: <BROADCAST,MULTICAST,UP> mtu 1500   *)
(*   HeadLine("", "eth0")     eth0: flags=4163<UP,BROADCAST>  mtu 1500     *)
(*   PlainHead                eth0      Link encap:Ethernet                *)
(*   LinkLine                     link/ether 00:1c:.. brd ff:ff:..         *)
(*   InetCidrLine                 inet 10.211.55.5/24 brd 10.211.55.255 .. *)
(*   EtherLine                    ether 00:1c:42:c4:5c:24  txqueuelen 1000 *)
(*   InetNetmaskLine              inet 10.211.55.5  netmask .. broadcast ..*)
(*   OtherLine                    inet6 fe80::.. / inet 127.0.0.1/8 scope..*)
(***************************************************************************)
Blank == [k |-> "blank", indent |-> FALSE]
HeadLine(idx, nm) == [k |-> "head", indent |-> FALSE, idx |-> idx, name |-> nm]
PlainHead == [k |-> "plainhead", indent |-> FALSE]
LinkLine(typ, mac, brd) ==
    [k |-> "link", indent |-> TRUE, type |-> typ, mac |-> mac, brd |-> brd]
InetCidrLine(ip, prefix, brd) ==
    [k |-> "inet_cidr", indent |-> TRUE, ip |-> ip, mask |-> prefix, brd |-> brd]
EtherLine(mac) == [k |-> "ether", indent |-> TRUE, mac |-> mac]
InetNetmaskLine(ip, mask, brd) ==
    [k |-> "inet_netmask", indent |-> TRUE, ip |-> ip, mask |-> mask, brd |-> brd]
OtherLine == [k |-> "other", indent |-> TRUE]

(***************************************************************************)
(* The patterns.  Each gives FindStringSubmatch's groups m[1], m[2], ...   *)
(* as a sequence, empty when the pattern does not match (len(m) == 0).     *)
(***************************************************************************)
\* "(\\d+: |)(\\w+): .*"
beginLinePattern(s) == IF s.k = "head" THEN <<s.idx, s.name>> ELSE <<>>

\* "link/(\\w+) ([\\w:]+) brd ([\\w:]+)"
linkLinePattern(s) == IF s.k = "link" THEN <<s.type, s.mac, s.brd>> ELSE <<>>

\* "inet ([\\d.]+)/(\\d+) brd ([\\d.]+) .*"
inetLinePattern(s) == IF s.k = "inet_cidr" THEN <<s.ip, s.mask, s.brd>> ELSE <<>>

\* "ether ([\\w:]+).*" : also found inside "link/ether <mac> brd .."
etherLinkPattern(s) ==
    IF s.k = "ether" \/ (s.k = "link" /\ s.type = "ether") THEN <<s.mac>> ELSE <<>>

\* "inet ([\\d.]+)\\s+netmask\\s+([\\d.]+)\\s+broadcast\\s+([\\d.]+)"
inetLinePattern2(s) ==
    IF s.k = "inet_netmask" THEN <<s.ip, s.mask, s.brd>> ELSE <<>>

(***************************************************************************)
(* LinuxIpAddr, and the scan of VM.getIps over the output's lines.         *)
(***************************************************************************)
NewLinuxIpAddr ==
    [IfName |-> "", LinkType |-> "", Mac |-> <<>>, Ip |-> "",
     Broadcast |-> "", Mask |-> ""]

\* lines 211-230: an indented line, with a current record
ApplyLine(ip, s, isIfconfig) ==
    IF isIfconfig
    THEN IF inetLinePattern2(s) # <<>>
         THEN [ip EXCEPT !.Ip = inetLinePattern2(s)[1],
                         !.Mask = inetLinePattern2(s)[2],
                         !.Broadcast = inetLinePattern2(s)[3]]
         ELSE IF etherLinkPattern(s) # <<>>
         THEN [ip EXCEPT !.LinkType = "ether", !.Mac = etherLinkPattern(s)[1]]
         ELSE ip
    ELSE IF inetLinePattern(s) # <<>>
         THEN [ip EXCEPT !.Ip = inetLinePattern(s)[1],
                         !.Mask = inetLinePattern(s)[2],
                         !.Broadcast = inetLinePattern(s)[3]]
         ELSE IF linkLinePattern(s) # <<>>
         THEN [ip EXCEPT !.LinkType = linkLinePattern(s)[1],
                         !.Mac = linkLinePattern(s)[2]]
         ELSE ip

\* lines 189-238 without the append of lines 234-236 after the loop
RECURSIVE ScanLinesNoFlush(_, _, _, _)
ScanLinesNoFlush(lines, isIfconfig, cur, ips) ==
    IF lines = <<>> THEN ips
    ELSE LET s == Head(lines)
             rest == Tail(lines)
         IN  IF s.k = "blank" THEN ScanLinesNoFlush(rest, isIfconfig, cur, ips)
             ELSE IF ~s.indent
             THEN LET m == beginLinePattern(s)
                      fresh == IF m # <<>>
                               THEN [NewLinuxIpAddr EXCEPT !.IfName = m[2]]
                               ELSE NewLinuxIpAddr
                  IN  ScanLinesNoFlush(rest, isIfconfig, <<fresh>>, ips \o cur)
             ELSE IF cur # <<>>
             THEN ScanLinesNoFlush(rest, isIfconfig,
                                   <<ApplyLine(cur[1], s, isIfconfig)>>, ips)
             ELSE ScanLinesNoFlush(rest, isIfconfig, cur, ips)

\* lines 189-238; cur is <<>> for a nil ip, <<r>> for a pointer to r
RECURSIVE ScanLines(_, _, _, _)
ScanLines(lines, isIfconfig, cur, ips) ==
    IF lines = <<>> THEN ips \o cur
    ELSE LET s == Head(lines)
             rest == Tail(lines)
         IN  IF s.k = "blank" THEN ScanLines(rest, isIfconfig, cur, ips)
             ELSE IF ~s.indent
             THEN LET m == beginLinePattern(s)
                      fresh == IF m # <<>>
                               THEN [NewLinuxIpAddr EXCEPT !.IfName = m[2]]
                               ELSE NewLinuxIpAddr
                  IN  ScanLines(rest, isIfconfig, <<fresh>>, ips \o cur)
             ELSE IF cur # <<>>
             THEN ScanLines(rest, isIfconfig,
                            <<ApplyLine(cur[1], s, isIfconfig)>>, ips)
             ELSE ScanLines(rest, isIfconfig, cur, ips)

(***************************************************************************)
(* The guest.  guest.whereis[cmd] is what `prlctl exec <id> whereis cmd`   *)
(* gives: [err, lines], a line [name, rest] standing for name ":" rest.    *)
(* guest.text[cmd] is the output of the listing command cmd.               *)
(***************************************************************************)
\* lines 159-172
RECURSIVE WhereisScan(_, _)
WhereisScan(lines, cmd) ==
    IF lines = <<>> THEN FALSE
    ELSE IF Head(lines).name = cmd THEN Trim(Head(lines).rest) # <<>>
    ELSE WhereisScan(Tail(lines), cmd)

testCommandExists(guest, cmd) ==
    IF guest.whereis[cmd].err THEN FALSE
    ELSE WhereisScan(guest.whereis[cmd].lines, cmd)

NoCommandErr == "No command to get ip address"
ExecErr == "exit status 1"

\* lines 174-239.  execOk: whether the listing command, once started, exits
\* with status 0.  log is the sequence of commands run in the guest.
getIpsIpFirst(guest, execOk) ==
    LET hasIp == testCommandExists(guest, "ip")
        hasIfconfig == ~hasIp /\ testCommandExists(guest, "ifconfig")
        probes == IF hasIp THEN << <<"whereis", "ip">> >>
                  ELSE << <<"whereis", "ip">>, <<"whereis", "ifconfig">> >>
        ran == IF hasIp THEN << <<"ip", "address", "show">> >>
               ELSE IF hasIfconfig THEN << <<"ifconfig">> >> ELSE <<>>
        err == IF ~hasIfconfig /\ ~hasIp THEN NoCommandErr
               ELSE IF execOk THEN "" ELSE ExecErr
        output == IF hasIp THEN guest.text["ip"] ELSE guest.text["ifconfig"]
    IN  [ips |-> IF err # "" THEN <<>> ELSE ScanLines(output, hasIfconfig, <<>>, <<>>),
         err |-> err, isIfconfig |-> hasIfconfig, log |-> probes \o ran]

getIps(guest, execOk) ==
    LET hasIfconfig == testCommandExists(guest, "ifconfig")
        hasIp == ~hasIfconfig /\ testCommandExists(guest, "ip")
        probes == IF hasIfconfig THEN << <<"whereis", "ifconfig">> >>
                  ELSE << <<"whereis", "ifconfig">>, <<"whereis", "ip">> >>
        ran == IF hasIfconfig THEN << <<"ifconfig">> >>
               ELSE IF hasIp THEN << <<"ip", "address", "show">> >> ELSE <<>>
        err == IF ~hasIfconfig /\ ~hasIp THEN NoCommandErr
               ELSE IF execOk THEN "" ELSE ExecErr
        output == IF hasIfconfig THEN guest.text["ifconfig"] ELSE guest.text["ip"]
    IN  [ips |-> IF err # "" THEN <<>> ELSE ScanLines(output, hasIfconfig, <<>>, <<>>),
         err |-> err, isIfconfig |-> hasIfconfig, log |-> probes \o ran]

(***************************************************************************)
(* VM.showIpAddress.  vm.Hardware is a Go map: every `range` over it may   *)
(* visit its keys in another order, so the correlation loop has a set of   *)
(* possible results, one per choice of orders.                             *)
(***************************************************************************)
NetPrefix == <<"n", "e", "t">>

\* s, _ := x.(string) for the strings the model keeps as TLA+ strings
AsText(x) == IF x.t = "string" THEN x.v ELSE ""

\* x == "default", for an interface{} x
IsText(x, s) == x.t = "string" /\ x.v = s

\* lines 267-268, without the enabled test
AdapterEligibleAnyState(dev, params) == HasPrefix(dev, NetPrefix)

\* lines 267-268
AdapterEligible(dev, params) ==
    HasPrefix(dev, NetPrefix) /\ IsTrue(params.enabled)

\* lines 266-283 for one ip, the map's keys visited in `order`
RECURSIVE ScanAdapters(_, _, _)
ScanAdapters(ip, hw, order) ==
    IF order = <<>> THEN [k |-> "none"]
    ELSE LET dev == Head(order)
             params == hw[dev]
         IN  IF AdapterEligible(dev, params)
             THEN LET c == compareMac(ip.Mac, AsString(params.mac))
                  IN  IF c = "panic" THEN [k |-> "panic"]
                      ELSE IF c = "equal" THEN [k |-> "match", dev |-> dev]
                      ELSE ScanAdapters(ip, hw, Tail(order))
             ELSE ScanAdapters(ip, hw, Tail(order))

\* lines 272-278
MakeIpAddr(vm, ip, dev) ==
    [VM |-> [ID |-> vm.ID, Name |-> vm.Name],
     IP |-> ip,
     Name |-> dev,
     IsDefault |-> IsText(vm.Hardware[dev].iface, "default"),
     Type |-> AsText(vm.Hardware[dev].type)]

\* lines 265-285: the set of [addrs, panic] the loop can end with
RECURSIVE Correlate(_, _, _)
Correlate(ips, vm, addrs) ==
    IF ips = <<>> THEN {[addrs |-> addrs, panic |-> FALSE]}
    ELSE UNION {
           LET o == ScanAdapters(Head(ips), vm.Hardware, order)
           IN  IF o.k = "panic" THEN {[addrs |-> addrs, panic |-> TRUE]}
               ELSE IF o.k = "match"
               THEN Correlate(Tail(ips), vm,
                              Append(addrs, MakeIpAddr(vm, Head(ips), o.dev)))
               ELSE Correlate(Tail(ips), vm, addrs)
           : order \in Perms(DOMAIN vm.Hardware) }

NoProbe ==
    [vm |-> "", addrs |-> <<>>, err |-> "", panic |-> FALSE, ips |-> <<>>,
     isIfconfig |-> FALSE, log |-> <<>>]

\* lines 247-286: the set of outcomes of vm.showIpAddress()
showIpAddress(vm, execOk) ==
    IF vm.State # "running"
    THEN {[NoProbe EXCEPT !.vm = vm.ID, !.err = "not running"]}
    ELSE IF vm.OS \notin {"linux", "ubuntu"}
    THEN {[NoProbe EXCEPT !.vm = vm.ID, !.err = "is not supported"]}
    ELSE LET g == getIps(vm.guest, execOk)
         IN  IF g.err # ""
             THEN {[NoProbe EXCEPT !.vm = vm.ID, !.err = g.err,
                                   !.isIfconfig = g.isIfconfig, !.log = g.log]}
             ELSE {[vm |-> vm.ID, addrs |-> c.addrs, err |-> "",
                    panic |-> c.panic, ips |-> g.ips,
                    isIfconfig |-> g.isIfconfig, log |-> g.log]
                   : c \in Correlate(g.ips, vm, <<>>)}

(***************************************************************************)
(* The inputs: guests, hardware maps and VMs the runs are drawn from.      *)
(***************************************************************************)
PrlMacA == <<"0", "0", "1", "C", "4", "2", "C", "4", "5", "C", "2", "4">>
GuestMacA ==
    <<"0", "0", ":", "1", "c", ":", "4", "2", ":", "c", "4", ":", "5", "c",
      ":", "2", "4">>
PrlMacB == <<"0", "0", "1", "c", "4", "2", "0", "0", "0", "0", "a", "8">>
GuestMacB ==
    <<"0", "0", ":", "1", "c", ":", "4", "2", ":", "0", "0", ":", "0", "0",
      ":", "a", "8">>
ShortMac == <<"0", "0", "1", "C", "4", "2">>
ZeroMac ==
    <<"0", "0", ":", "0", "0", ":", "0", "0", ":", "0", "0", ":", "0", "0",
      ":", "0", "0">>
BcastMac ==
    <<"f", "f", ":", "f", "f", ":", "f", "f", ":", "f", "f", ":", "f", "f",
      ":", "f", "f">>

\* the guest's interfaces: name, MAC, IPv4 address ("" for none)
Nic(nm, mac, ip) == [name |-> nm, mac |-> mac, ip |-> ip]

NicSets ==
    { << Nic("eth0", GuestMacA, "10.211.55.5") >>,
      << Nic("eth0", GuestMacA, "10.211.55.5"),
         Nic("eth1", GuestMacB, "10.37.129.12") >>,
      << Nic("eth0", GuestMacA, "10.211.55.5"),
         Nic("br0", GuestMacA, "192.168.1.20") >>,
      << Nic("eth0", GuestMacA, "") >> }

\* `ip address show` for these interfaces, after the loopback
IpShowNic(nic) ==
    << HeadLine("2: ", nic.name), LinkLine("ether", nic.mac, BcastMac) >>
      \o (IF nic.ip = "" THEN <<>>
          ELSE << InetCidrLine(nic.ip, "24", "10.255.255.255") >>)
      \o << OtherLine >>

IpShowText(nics) ==
    << HeadLine("1: ", "lo"), LinkLine("loopback", ZeroMac, ZeroMac), OtherLine >>
      \o Concat([i \in 1..Len(nics) |-> IpShowNic(nics[i])])

\* `ifconfig` for these interfaces, before the loopback
IfconfigNic(nic) ==
    << HeadLine("", nic.name) >>
      \o (IF nic.ip = "" THEN <<>>
          ELSE << InetNetmaskLine(nic.ip, "255.255.255.0", "10.255.255.255") >>)
      \o << OtherLine, EtherLine(nic.mac), OtherLine, Blank >>

IfconfigText(nics) ==
    Concat([i \in 1..Len(nics) |-> IfconfigNic(nics[i])])
      \o << HeadLine("", "lo"), OtherLine, OtherLine, Blank >>

\* whereis: the command failed, printed "cmd:" alone, or printed a path
WhereisOutcomes(cmd) ==
    { [err |-> TRUE, lines |-> <<>>],
      [err |-> FALSE, lines |-> << [name |-> cmd, rest |-> <<>>] >>],
      [err |-> FALSE, lines |-> << [name |-> cmd, rest |-> <<" ", "/", "b">>] >>] }

WhereisFound(cmd) ==
    [err |-> FALSE, lines |-> << [name |-> cmd, rest |-> <<" ", "/", "b">>] >>]

Guests ==
    { [whereis |-> [ifconfig |-> wc, ip |-> wi],
       text |-> [ifconfig |-> IfconfigText(nics), ip |-> IpShowText(nics)]]
      : wc \in WhereisOutcomes("ifconfig"), wi \in WhereisOutcomes("ip"),
        nics \in NicSets }

\* the keys of a Hardware map, and the type prlctl reports for each
DevKeys == { <<"n", "e", "t", "0">>, <<"n", "e", "t", "1">>, <<"u", "s", "b">> }

TypeOf(dev) ==
    IF dev = <<"n", "e", "t", "0">> THEN JStr("shared")
    ELSE IF dev = <<"n", "e", "t", "1">> THEN JStr("bridged")
    ELSE Nil

IfaceOf(dev) == IF dev = <<"n", "e", "t", "0">> THEN JStr("default") ELSE Nil

MacValues == { JStr(PrlMacA), JStr(PrlMacB), JStr(ShortMac), Nil }

Params(dev, en, mac) ==
    [enabled |-> JBool(en), mac |-> mac, type |-> TypeOf(dev), iface |-> IfaceOf(dev)]

HardwareOver(keys) ==
    { [d \in keys |-> Params(d, f[d][1], f[d][2])]
      : f \in [keys -> BOOLEAN \X MacValues] }

Hardwares ==
    UNION { HardwareOver(keys)
            : keys \in { K \in SUBSET DevKeys : Cardinality(K) <= MaxAdapters } }

VMsOf(id, nm, states, oses, guests, hardwares) ==
    { [ID |-> id, Name |-> nm, State |-> st, OS |-> os, Hardware |-> hw,
       guest |-> g]
      : st \in states, os \in oses, g \in guests, hw \in hardwares }

(***************************************************************************)
(* listBox: drawContent, moveDown, moveUp.                                 *)
(***************************************************************************)
Title == "Choose VM from parallels"

RECURSIVE Spaces(_)
Spaces(n) == IF n <= 0 THEN "" ELSE " " \o Spaces(n - 1)

\* fmt's %-Ns : s, padded with spaces on the right to N bytes
PadRight(str, n) == str \o Spaces(n - Len(str))

\* line 63: fmt.Sprintf(" %-20s: %-15s (%s)", ip.VM.Name, ip.IP.Ip, ip.Type)
DisplayLine(ip) ==
    " " \o PadRight(ip.VM.Name, 20) \o ": " \o PadRight(ip.IP.Ip, 15)
        \o " (" \o ip.Type \o ")"

\* lines 66-69: the fields not named are zero
NewListBox(content) ==
    [title |-> Title, content |-> content, selectIndex |-> 0,
     width |-> 0, height |-> 0, centerX |-> 0, centerY |-> 0,
     titlePosX |-> 0, titlePosY |-> 0, originX |-> 0, originY |-> 0]

\* lines 305-309: the loop over the content, from the width w
RECURSIVE WidthAfter(_, _)
WidthAfter(content, w) ==
    IF content = <<>> THEN w
    ELSE WidthAfter(Tail(content),
                    IF Len(Head(content)) > w THEN Len(Head(content)) + 12 ELSE w)

\* lines 299-362: the fields drawContent assigns; size is termbox.Size()
drawContent(l, size) ==
    IF Len(l.content) = 0 THEN l
    ELSE LET height == Len(l.content) + 2
             w1 == WidthAfter(l.content, l.width)
             width == IF w1 < Len(l.title) THEN Len(l.title) ELSE w1
             cx == size[1] \div 2
             cy == size[2] \div 2
         IN  [l EXCEPT !.height = height, !.width = width,
                       !.centerX = cx, !.centerY = cy,
                       !.titlePosX = cx - (Len(l.title) \div 2),
                       !.titlePosY = cy - (height \div 2) - 2,
                       !.originX = cx - (width \div 2),
                       !.originY = cy - (height \div 2)]

\* moveDown with the bound off by one
moveDownPastEnd(l, size) ==
    IF l.selectIndex < Len(l.content)
    THEN drawContent([l EXCEPT !.selectIndex = @ + 1], size)
    ELSE l

\* lines 364-369
moveDown(l, size) ==
    IF l.selectIndex < Len(l.content) - 1
    THEN drawContent([l EXCEPT !.selectIndex = @ + 1], size)
    ELSE l

\* moveUp wrapping around from the first row to the last
moveUpWrap(l, size) ==
    IF l.selectIndex > 0
    THEN drawContent([l EXCEPT !.selectIndex = @ - 1], size)
    ELSE drawContent([l EXCEPT !.selectIndex = Len(l.content) - 1], size)

\* lines 371-376
moveUp(l, size) ==
    IF l.selectIndex > 0
    THEN drawContent([l EXCEPT !.selectIndex = @ - 1], size)
    ELSE l

(***************************************************************************)
(* Events, as termbox.PollEvent delivers them.  A key event carries a key  *)
(* and no character, or a character and no key.                            *)
(***************************************************************************)
NoKey == "None"
NoCh == "NUL"

Keys ==
    { "KeyCtrlC", "KeyArrowUp", "KeyArrowLeft", "KeyPgup", "KeyArrowDown",
      "KeyArrowRight", "KeyPgdn", "KeyEsc", "KeyEnter", "KeyBackspace",
      "KeyBackspace2", "KeyDelete", "KeyF1" }

ListChars == { "q", "Q", "k", "K", "j", "J", "a" }
PromptChars == { "a" }

KeyEvent(key, ch) == [type |-> "EventKey", key |-> key, ch |-> ch]

KeyEvents(chars) ==
    { KeyEvent(key, NoCh) : key \in Keys } \cup { KeyEvent(NoKey, ch) : ch \in chars }

MouseEvents ==
    { [type |-> "EventMouse", key |-> key, ch |-> NoCh]
      : key \in { "MouseWheelUp", "MouseWheelDown", "MouseLeft" } }

ResizeEvent == [type |-> "EventResize", key |-> NoKey, ch |-> NoCh]
ErrorEvent == [type |-> "EventError", key |-> NoKey, ch |-> NoCh]
NoEvent == [type |-> "none", key |-> NoKey, ch |-> NoCh]

TermSizes == { <<80, 24>>, <<121, 41>> }

\* errors.New("ctrlC"), errors.New("cancelled"), and the errors termbox gives
errCtrlC == "ctrlC"
errCancelled == "cancelled"
errInit == "termbox: init failed"
errEvent == "termbox: read error"

(***************************************************************************)
(* The terminal surface: termbox.Init acquires it, the deferred            *)
(* termbox.Close releases it when the function returns or panics.          *)
(***************************************************************************)
termboxInit(h, who) == h \cup {who}

\* a return path that skips the deferred Close
deferCloseLeak(h, who) == h

\* lines 385, 438
deferClose(h, who) == h \ {who}

(***************************************************************************)
(* listBox.displayAndSelect: what each closing event returns, and the      *)
(* handling of one event.  A step is [lb, ret]: the list box after the     *)
(* event, and <<>> while the loop goes on or <<r>> when it returns r.      *)
(***************************************************************************)
Result(by, index, err) == [by |-> by, index |-> index, err |-> err]
NoResult == Result("", 0, "")

\* line 383
listInitFailResult == Result("initfail", -1, errInit)

\* line 399
listCtrlCResult(l) == Result("interrupt", l.selectIndex, errCtrlC)

\* the escape key reported with an error of its own
listEscResultOwnError(l) == Result("escape", 0, errCancelled)

\* line 407
listEscResult(l) == Result("escape", 0, errCtrlC)

\* line 414
listQuitResult(l) == Result("quit", 0, errCtrlC)

\* line 409
listEnterResult(l) == Result("enter", l.selectIndex, "")

\* line 429
listErrorResult(l) == Result("fault", -1, errEvent)

Stay(l) == [lb |-> l, ret |-> <<>>]
Return(l, r) == [lb |-> l, ret |-> <<r>>]

\* lines 395-420
listKey(l, size, ev) ==
    IF ev.key = "KeyCtrlC" THEN Return(l, listCtrlCResult(l))
    ELSE IF ev.key \in {"KeyArrowUp", "KeyArrowLeft", "KeyPgup"}
    THEN Stay(moveUp(l, size))
    ELSE IF ev.key \in {"KeyArrowDown", "KeyArrowRight", "KeyPgdn"}
    THEN Stay(moveDown(l, size))
    ELSE IF ev.key = "KeyEsc" THEN Return(l, listEscResult(l))
    ELSE IF ev.key = "KeyEnter" THEN Return(l, listEnterResult(l))
    ELSE IF ev.ch \in {"q", "Q"} THEN Return(l, listQuitResult(l))
    ELSE IF ev.ch \in {"k", "K"} THEN Stay(moveUp(l, size))
    ELSE IF ev.ch \in {"j", "J"} THEN Stay(moveDown(l, size))
    ELSE Stay(l)

\* lines 421-427
listMouse(l, size, ev) ==
    IF ev.key = "MouseWheelUp" THEN Stay(moveUp(l, size))
    ELSE IF ev.key = "MouseWheelDown" THEN Stay(moveDown(l, size))
    ELSE Stay(l)

(***************************************************************************)
(* askForUsername: the buffer is a Go string, a sequence of bytes.         *)
(***************************************************************************)
\* string(ev.Ch): the UTF-8 encoding of the rune, one byte for the ASCII
\* characters of the model and for the rune 0 of an event with no character
RuneBytes(ch) == IF ch = NoCh THEN <<"0x00">> ELSE <<ch>>

\* line 487: name = name[:len(name)-2], which panics when len(name) < 2
backspace(nm) ==
    IF Len(nm) - 2 < 0 THEN [panic |-> TRUE, name |-> nm]
    ELSE [panic |-> FALSE, name |-> SubSeq(nm, 1, Len(nm) - 2)]

AskResult(by, nm, err) == [by |-> by, name |-> nm, err |-> err]
NoAskResult == AskResult("", <<>>, "")

\* line 436
askInitFailResult == AskResult("initfail", <<>>, errInit)

\* lines 480-494: [name, ret, panic] after one key event
promptKey(nm, ev) ==
    IF ev.key = "KeyCtrlC"
    THEN [name |-> nm, ret |-> <<AskResult("interrupt", <<>>, errCtrlC)>>, panic |-> FALSE]
    ELSE IF ev.key = "KeyEsc"
    THEN [name |-> nm, ret |-> <<AskResult("escape", <<>>, errCancelled)>>, panic |-> FALSE]
    ELSE IF ev.key \in {"KeyBackspace", "KeyBackspace2", "KeyDelete"}
    THEN [name |-> backspace(nm).name, ret |-> <<>>, panic |-> backspace(nm).panic]
    ELSE IF ev.key = "KeyEnter"
    THEN [name |-> nm, ret |-> <<AskResult("enter", nm, "")>>, panic |-> FALSE]
    ELSE [name |-> nm \o RuneBytes(ev.ch), ret |-> <<>>, panic |-> FALSE]

\* lines 476-496: [name, ret, panic] after one event of any type; the
\* switch on ev.Type has the cases EventResize and EventKey and no other
promptEvent(nm, ev) ==
    IF ev.type = "EventKey" THEN promptKey(nm, ev)
    ELSE [name |-> nm, ret |-> <<>>, panic |-> FALSE]

(***************************************************************************)
(* main and sshLogin.                                                      *)
(***************************************************************************)
DefaultPort == 22
RootUser == <<"r", "o", "o", "t">>
HelpText == "ssh-parallels [options] ..."
NoVmNotice == "no available(running) vm found!"
CancelNotice == "cancel login to vm"
NotInstalledNotice == "Parallels is not installed!"

\* lines 31-40: a.user is <<>> when no --user/-u/-l is given
ParseFlags(a) ==
    [help |-> a.help, ask |-> a.ask,
     user |-> IF a.user = <<>> THEN RootUser ELSE a.user[1],
     port |-> DefaultPort]

\* *help, *ask, *user, *port after flag.Parse()
flags == ParseFlags(args)

\* lines 500-506: the command sshLogin runs
NoLaunch == [ran |-> FALSE, ip |-> "", user |-> <<>>, port |-> 0]
sshLogin(ip, user, port) ==
    [ran |-> TRUE, ip |-> ip.IP.Ip, user |-> user, port |-> port]

\* lines 72-90 with the `return` of line 76 missing
afterSelectNoReturn(r, fl, ips, o) ==
    LET o2 == IF r.err = errCtrlC THEN Append(o, CancelNotice) ELSE o
    IN  IF r.index >= 0 /\ r.index < Len(ips)
        THEN IF fl.ask
             THEN [pc |-> "prompt_init", out |-> o2, launched |-> NoLaunch]
             ELSE [pc |-> "ssh", out |-> o2,
                   launched |-> sshLogin(ips[r.index + 1], fl.user, fl.port)]
        ELSE [pc |-> "done", out |-> o2, launched |-> NoLaunch]

\* lines 72-90, up to the call of askForUsername or sshLogin
afterSelect(r, fl, ips, o) ==
    IF r.err # ""
    THEN [pc |-> "done",
          out |-> IF r.err = errCtrlC THEN Append(o, CancelNotice) ELSE o,
          launched |-> NoLaunch]
    ELSE IF r.index >= 0 /\ r.index < Len(ips)
    THEN IF fl.ask
         THEN [pc |-> "prompt_init", out |-> o, launched |-> NoLaunch]
         ELSE [pc |-> "ssh", out |-> o,
               launched |-> sshLogin(ips[r.index + 1], fl.user, fl.port)]
    ELSE [pc |-> "done", out |-> o, launched |-> NoLaunch]

\* lines 84-89 with the fallback of line 86 missing
afterAskNoFallback(r, fl, ip) == sshLogin(ip, r.name, fl.port)

\* lines 84-89, after askForUsername returned r
afterAsk(r, fl, ip) ==
    sshLogin(ip, IF r.err # "" THEN fl.user ELSE r.name, fl.port)

\* lines 109-119: [printed, vms] for what prlctl gave.  json.Unmarshal fails
\* on empty or malformed output, and listVMs then returns nil.
listVMs(p) ==
    [printed |-> IF p.err THEN <<NotInstalledNotice>> ELSE <<>>,
     vms |-> IF p.json THEN p.list ELSE <<>>]

(***************************************************************************)
(* The runs of the whole program: command lines and inventories.           *)
(***************************************************************************)
BobUser == <<"b", "o", "b">>

ArgSets == [help : BOOLEAN, ask : BOOLEAN, user : {<<>>, <<BobUser>>}]

VMId(i) == CASE i = 1 -> "{vm-1}" [] i = 2 -> "{vm-2}" [] OTHER -> "{vm-n}"
VMName(i) ==
    CASE i = 1 -> "ubuntu" [] i = 2 -> "debian-build-server-2024" [] OTHER -> "centos"

Net0 == <<"n", "e", "t", "0">>
Net1 == <<"n", "e", "t", "1">>

MainHardwares ==
    { [d \in {Net0, Net1} |->
          IF d = Net0 THEN Params(d, TRUE, JStr(PrlMacA))
          ELSE Params(d, TRUE, JStr(PrlMacB))],
      [d \in {Net0} |-> Params(d, TRUE, JStr(PrlMacA))],
      [d \in {Net0} |-> Params(d, TRUE, JStr(ShortMac))] }

MainGuest ==
    LET nics == << Nic("eth0", GuestMacA, "10.211.55.5"),
                   Nic("eth1", GuestMacB, "10.37.129.12") >>
    IN  [whereis |-> [ifconfig |-> WhereisFound("ifconfig"), ip |-> WhereisFound("ip")],
         text |-> [ifconfig |-> IfconfigText(nics), ip |-> IpShowText(nics)]]

MainTemplates ==
    ({"running"} \X MainHardwares)
      \cup {<<"stopped", [d \in {Net0} |-> Params(d, TRUE, JStr(PrlMacA))]>>}

Inventories ==
    UNION { { [i \in 1..n |->
                 [ID |-> VMId(i), Name |-> VMName(i), State |-> t[i][1],
                  OS |-> "linux", Hardware |-> t[i][2], guest |-> MainGuest]]
              : t \in [1..n -> MainTemplates] }
            : n \in 0..MaxVMs }

PrlctlOutcomes ==
    { [err |-> TRUE, json |-> FALSE, list |-> <<>>],
      [err |-> FALSE, json |-> FALSE, list |-> <<>>] }
      \cup { [err |-> FALSE, json |-> TRUE, list |-> inv] : inv \in Inventories }

Init ==
    /\ pc = "start"
    /\ args \in ArgSets
    /\ prlctl \in PrlctlOutcomes
    /\ vmIdx = 0
    /\ lastProbe = NoProbe
    /\ availableIps = <<>>
    /\ lb = NewListBox(<<>>)
    /\ term \in TermSizes
    /\ holders = {}
    /\ lbRet = NoResult
    /\ name = <<>>
    /\ askRet = NoAskResult
    /\ lbEv = NoEvent
    /\ out = <<>>
    /\ launched = NoLaunch
    /\ crash = ""
    /\ probed = <<>>
    /\ norm = NoNorm
    /\ scan = NoScan

\* line 48: the slice main ranges over
VMList == listVMs(prlctl).vms

\* lines 42-45 and the call of listVMs of line 48
MainStart ==
    /\ pc = "start"
    /\ IF flags.help
       THEN /\ out' = Append(out, HelpText)
            /\ pc' = "done"
       ELSE /\ out' = out \o listVMs(prlctl).printed
            /\ pc' = "loop"
    /\ UNCHANGED <<args, prlctl, norm, scan, probed, vmIdx, lastProbe,
                   availableIps, lb, term,
                   holders, lbRet, name, askRet, lbEv, launched, crash>>

\* lines 50-53 with `availableIps = ips` for the append of line 53
appendIpsOverwrite(avail, r) ==
    IF r.err # "" THEN avail ELSE r.addrs

\* lines 50-53: a failed probe is passed over, the addresses of a
\* successful one are appended
appendIps(avail, r) ==
    IF r.err # "" THEN avail ELSE avail \o r.addrs

\* lines 48-54: one iteration of the loop over the VMs
MainLoop ==
    /\ pc = "loop"
    /\ vmIdx < Len(VMList)
    /\ \E execOk \in BOOLEAN :
         \E r \in showIpAddress(VMList[vmIdx + 1], execOk) :
            /\ lastProbe' = r
            /\ probed' = Append(probed, [err |-> r.err, addrs |-> r.addrs,
                                        panic |-> r.panic])
            /\ vmIdx' = vmIdx + 1
            /\ IF r.panic
               THEN /\ pc' = "crashed"
                    /\ crash' = "compareMac:243"
                    /\ availableIps' = availableIps
               ELSE /\ pc' = pc
                    /\ crash' = crash
                    /\ availableIps' = appendIps(availableIps, r)
    /\ UNCHANGED <<args, prlctl, norm, scan, lb, term, holders, lbRet, name,
                   askRet,
                   lbEv, out, launched>>

\* lines 56-69 without the return of lines 56-59: the list is built and
\* shown whatever its length
MainMenuNoEmptyCheck ==
    /\ pc = "loop"
    /\ vmIdx = Len(VMList)
    /\ lb' = NewListBox([i \in 1..Len(availableIps) |->
                            DisplayLine(availableIps[i])])
    /\ pc' = "list_init"
    /\ UNCHANGED <<args, prlctl, norm, scan, probed, vmIdx, lastProbe,
                   availableIps, term, out,
                   holders, lbRet, name, askRet, lbEv, launched, crash>>

\* lines 56-69
MainMenu ==
    /\ pc = "loop"
    /\ vmIdx = Len(VMList)
    /\ IF Len(availableIps) = 0
       THEN /\ out' = Append(out, NoVmNotice)
            /\ pc' = "done"
            /\ lb' = lb
       ELSE /\ lb' = NewListBox([i \in 1..Len(availableIps) |->
                                    DisplayLine(availableIps[i])])
            /\ pc' = "list_init"
            /\ out' = out
    /\ UNCHANGED <<args, prlctl, norm, scan, probed, vmIdx, lastProbe,
                   availableIps, term,
                   holders, lbRet, name, askRet, lbEv, launched, crash>>

\* displayAndSelect returns r, h being the holders of the surface then;
\* main goes on to its next call (lines 71-90)
ListReturn(r, h) ==
    LET a == afterSelect(r, flags, availableIps, out)
    IN  /\ lbRet' = r
        /\ holders' = h
        /\ pc' = a.pc
        /\ out' = a.out
        /\ launched' = a.launched

ListStep(step) ==
    /\ lb' = step.lb
    /\ IF step.ret = <<>>
       THEN UNCHANGED <<pc, holders, lbRet, out, launched>>
       ELSE ListReturn(step.ret[1], deferClose(holders, "list"))

\* lines 381-389
ListInit ==
    /\ pc = "list_init"
    /\ \E ok \in BOOLEAN :
         IF ok
         THEN /\ holders' = termboxInit(holders, "list")
              /\ lb' = drawContent(lb, term)
              /\ pc' = "list"
              /\ UNCHANGED <<lbRet, out, launched>>
         ELSE /\ lb' = lb
              /\ ListReturn(listInitFailResult, holders)
    /\ UNCHANGED <<args, prlctl, norm, scan, probed, vmIdx, lastProbe,
                   availableIps, term,
                   name, askRet, lbEv, crash>>

\* lines 393-394
ListResize ==
    /\ pc = "list"
    /\ \E size \in TermSizes :
         /\ term' = size
         /\ lb' = drawContent(lb, size)
    /\ lbEv' = ResizeEvent
    /\ UNCHANGED <<pc, args, prlctl, norm, scan, probed, vmIdx, lastProbe,
                   availableIps,
                   holders, lbRet, name, askRet, out, launched, crash>>

\* lines 395-420
ListKey ==
    /\ pc = "list"
    /\ \E ev \in KeyEvents(ListChars) :
         /\ lbEv' = ev
         /\ ListStep(listKey(lb, term, ev))
    /\ UNCHANGED <<args, prlctl, norm, scan, probed, vmIdx, lastProbe,
                   availableIps, term,
                   name, askRet, crash>>

\* lines 421-427
ListMouse ==
    /\ pc = "list"
    /\ \E ev \in MouseEvents :
         /\ lbEv' = ev
         /\ ListStep(listMouse(lb, term, ev))
    /\ UNCHANGED <<args, prlctl, norm, scan, probed, vmIdx, lastProbe,
                   availableIps, term,
                   name, askRet, crash>>

\* lines 428-429
ListError ==
    /\ pc = "list"
    /\ lbEv' = ErrorEvent
    /\ ListStep(Return(lb, listErrorResult(lb)))
    /\ UNCHANGED <<args, prlctl, norm, scan, probed, vmIdx, lastProbe,
                   availableIps, term,
                   name, askRet, crash>>

\* askForUsername returns r, h being the holders of the surface then;
\* main goes on to sshLogin (lines 84-89)
AskReturn(r, h) ==
    /\ askRet' = r
    /\ holders' = h
    /\ launched' = afterAsk(r, flags, availableIps[lbRet.index + 1])
    /\ pc' = "ssh"

\* lines 435-473
PromptInit ==
    /\ pc = "prompt_init"
    /\ \E ok \in BOOLEAN :
         IF ok
         THEN /\ holders' = termboxInit(holders, "prompt")
              /\ pc' = "prompt"
              /\ UNCHANGED <<askRet, launched>>
         ELSE AskReturn(askInitFailResult, holders)
    /\ name' = <<>>
    /\ UNCHANGED <<args, prlctl, norm, scan, probed, vmIdx, lastProbe,
                   availableIps, lb, term,
                   lbRet, lbEv, out, crash>>

\* lines 478-479: draw() reads the size taken at line 440
PromptResize ==
    /\ pc = "prompt"
    /\ term' \in TermSizes
    /\ UNCHANGED <<pc, args, prlctl, norm, scan, probed, vmIdx, lastProbe,
                   availableIps, lb,
                   holders, lbRet, name, askRet, lbEv, out, launched, crash>>

\* lines 480-494
PromptKey ==
    /\ pc = "prompt"
    /\ \E ev \in KeyEvents(PromptChars) :
         LET s == promptKey(name, ev)
         IN  /\ Len(s.name) <= MaxName
             /\ IF s.panic
                THEN /\ pc' = "crashed"
                     /\ crash' = "askForUsername:487"
                     /\ holders' = deferClose(holders, "prompt")
                     /\ UNCHANGED <<name, askRet, launched>>
                ELSE IF s.ret # <<>>
                THEN /\ AskReturn(s.ret[1], deferClose(holders, "prompt"))
                     /\ UNCHANGED <<name, crash>>
                ELSE /\ name' = s.name
                     /\ UNCHANGED <<pc, holders, askRet, launched, crash>>
    /\ UNCHANGED <<args, prlctl, norm, scan, probed, vmIdx, lastProbe,
                   availableIps, lb, term,
                   lbRet, lbEv, out>>

\* lines 477-495: the switch has no case for a mouse or an error event
PromptIgnored ==
    /\ pc = "prompt"
    /\ \E ev \in MouseEvents \cup {ErrorEvent} :
          /\ promptEvent(name, ev) = [name |-> name, ret |-> <<>>, panic |-> FALSE]
          /\ UNCHANGED vars

\* line 505: ssh exits, cmd.Run returns and main ends
SshExit ==
    /\ pc = "ssh"
    /\ pc' = "done"
    /\ UNCHANGED <<args, prlctl, norm, scan, probed, vmIdx, lastProbe,
                   availableIps, lb, term,
                   holders, lbRet, name, askRet, lbEv, out, launched, crash>>

Next ==
    \/ MainStart
    \/ MainLoop
    \/ MainMenu
    \/ ListInit
    \/ ListResize
    \/ ListKey
    \/ ListMouse
    \/ ListError
    \/ PromptInit
    \/ PromptResize
    \/ PromptKey
    \/ PromptIgnored
    \/ SshExit

Spec == Init /\ [][Next]_vars

(***************************************************************************)
(* One call of vm.showIpAddress from main's loop, for every VM of the      *)
(* input sets.                                                             *)
(***************************************************************************)
ProbeVMs ==
    VMsOf(VMId(1), VMName(1), {"running", "stopped"}, {"linux", "ubuntu", "win-10"},
          Guests, Hardwares)

InitVM ==
    /\ pc = "loop"
    /\ args = [help |-> FALSE, ask |-> FALSE, user |-> <<>>]
    /\ \E vm \in ProbeVMs : prlctl = [err |-> FALSE, json |-> TRUE, list |-> <<vm>>]
    /\ vmIdx = 0
    /\ lastProbe = NoProbe
    /\ availableIps = <<>>
    /\ lb = NewListBox(<<>>)
    /\ term = <<80, 24>>
    /\ holders = {}
    /\ lbRet = NoResult
    /\ name = <<>>
    /\ askRet = NoAskResult
    /\ lbEv = NoEvent
    /\ out = <<>>
    /\ launched = NoLaunch
    /\ crash = ""
    /\ probed = <<>>
    /\ norm = NoNorm
    /\ scan = NoScan

NextVM == MainLoop

SpecVM == InitVM /\ [][NextVM]_vars

(***************************************************************************)
(* compareMac's normalisation on its own: one 12-digit MAC, in any letter  *)
(* case, is normalised together with its upper-case and its lower-case     *)
(* spelling, and the result is normalised once more.                       *)
(***************************************************************************)
\* the variables of main's run, which a normalisation or a scan leaves alone
runVars == <<pc, args, prlctl, vmIdx, lastProbe, availableIps, lb, term,
             holders, lbRet, name, askRet, lbEv, out, launched, crash,
             probed>>

\* main has not been started
Idle ==
    /\ pc = "start"
    /\ args = [help |-> FALSE, ask |-> FALSE, user |-> <<>>]
    /\ prlctl = [err |-> FALSE, json |-> TRUE, list |-> <<>>]
    /\ vmIdx = 0
    /\ lastProbe = NoProbe
    /\ availableIps = <<>>
    /\ lb = NewListBox(<<>>)
    /\ term = <<80, 24>>
    /\ holders = {}
    /\ lbRet = NoResult
    /\ name = <<>>
    /\ askRet = NoAskResult
    /\ lbEv = NoEvent
    /\ out = <<>>
    /\ launched = NoLaunch
    /\ crash = ""
    /\ probed = <<>>

UpperCh(c) ==
    CASE c = "a" -> "A" [] c = "b" -> "B" [] c = "c" -> "C"
      [] c = "d" -> "D" [] c = "e" -> "E" [] c = "f" -> "F"
      [] OTHER -> c

\* the two spellings of a MAC the hypervisor may report
UpperCase(s) == [i \in 1..Len(s) |-> UpperCh(s[i])]
LowerCase(s) == [i \in 1..Len(s) |-> LowerCh(s[i])]

\* the octets the MACs are made of, as two hex digits each
MacOctets == {<<"0", "0">>, <<"1", "C">>, <<"a", "F">>, <<"b", "e">>}

\* VM.Hardware[..]["mac"] as prlctl reports it: twelve hex digits, no
\* separators
MacInputs ==
    { o[1] \o o[2] \o o[3] \o o[4] \o o[5] \o o[6] :
        o \in [1..6 -> MacOctets] }

InitMac ==
    /\ Idle
    /\ scan = NoScan
    /\ \E m \in MacInputs :
          norm = [stage |-> "input", in |-> m, out |-> <<>>, ofUpper |-> <<>>,
                  ofLower |-> <<>>, again |-> <<>>]

\* lines 242-243 applied to the MAC and to its two spellings
NormalizeMac ==
    /\ norm.stage = "input"
    /\ ~normalizeMac(norm.in).panic
    /\ norm' = [norm EXCEPT !.stage = "normalized",
                            !.out = normalizeMac(norm.in).m,
                            !.ofUpper = normalizeMac(UpperCase(norm.in)).m,
                            !.ofLower = normalizeMac(LowerCase(norm.in)).m]
    /\ UNCHANGED <<runVars, scan>>

\* lines 242-243 applied to their own result
NormalizeAgain ==
    /\ norm.stage = "normalized"
    /\ ~normalizeMac(norm.out).panic
    /\ norm' = [norm EXCEPT !.stage = "again",
                            !.again = normalizeMac(norm.out).m]
    /\ UNCHANGED <<runVars, scan>>

NextMac ==
    \/ NormalizeMac
    \/ NormalizeAgain

SpecMac == InitMac /\ [][NextMac]_vars

(***************************************************************************)
(* The scanner of VM.getIps on its own: one command output of at most      *)
(* MaxLines lines, in the format of `ip address show` or of `ifconfig`,    *)
(* is put through the loop of lines 189-238.                               *)
(***************************************************************************)
MaxLines == 4      \* lines of one command output

\* lines of `ip address show`
ModernLines ==
    { Blank, OtherLine, PlainHead,
      HeadLine("2: ", "eth0"), HeadLine("3: ", "eth1"),
      LinkLine("ether", GuestMacA, BcastMac),
      InetCidrLine("10.211.55.5", "24", "10.211.55.255"),
      InetCidrLine("10.37.129.12", "16", "10.37.255.255") }

\* lines of `ifconfig`
LegacyLines ==
    { Blank, OtherLine, PlainHead,
      HeadLine("", "eth0"), HeadLine("", "eth1"),
      EtherLine(GuestMacA),
      InetNetmaskLine("10.211.55.5", "255.255.255.0", "10.211.55.255"),
      InetNetmaskLine("10.37.129.12", "255.255.0.0", "10.37.255.255") }

TextsOver(alphabet) == UNION { [1..n -> alphabet] : n \in 0..MaxLines }

InitScan ==
    /\ Idle
    /\ norm = NoNorm
    /\ \E isIfconfig \in BOOLEAN :
         \E text \in TextsOver(IF isIfconfig THEN LegacyLines ELSE ModernLines) :
            scan = [stage |-> "input", isIfconfig |-> isIfconfig,
                    lines |-> text, ips |-> <<>>]

\* lines 189-238
ScanOutput ==
    /\ scan.stage = "input"
    /\ scan' = [scan EXCEPT !.stage = "scanned",
                            !.ips = ScanLines(scan.lines, scan.isIfconfig,
                                              <<>>, <<>>)]
    /\ UNCHANGED <<runVars, norm>>

NextScan == ScanOutput

SpecScan == InitScan /\ [][NextScan]_vars

(***************************************************************************)
(* main up to the menu, over inventories that mix VMs whose probe succeeds *)
(* with VMs that are stopped, run an unsupported OS, have neither listing  *)
(* command, or carry a MAC compareMac cannot slice.                        *)
(***************************************************************************)
\* whereis prints "cmd:" alone for both commands
NoCommandGuest ==
    [whereis |-> [c \in {"ifconfig", "ip"} |->
                     [err |-> FALSE, lines |-> << [name |-> c, rest |-> <<>>] >>]],
     text |-> MainGuest.text]

\* State, OS, guest and Hardware of the VMs
LoopTemplates ==
    { [State |-> "running", OS |-> "linux", guest |-> MainGuest,
       Hardware |-> [d \in {Net0, Net1} |->
                        IF d = Net0 THEN Params(d, TRUE, JStr(PrlMacA))
                        ELSE Params(d, TRUE, JStr(PrlMacB))]],
      [State |-> "running", OS |-> "ubuntu", guest |-> MainGuest,
       Hardware |-> [d \in {Net0} |-> Params(d, TRUE, JStr(PrlMacA))]],
      [State |-> "stopped", OS |-> "linux", guest |-> MainGuest,
       Hardware |-> [d \in {Net0} |-> Params(d, TRUE, JStr(PrlMacA))]],
      [State |-> "running", OS |-> "win-10", guest |-> MainGuest,
       Hardware |-> [d \in {Net0} |-> Params(d, TRUE, JStr(PrlMacA))]],
      [State |-> "running", OS |-> "linux", guest |-> NoCommandGuest,
       Hardware |-> [d \in {Net0} |-> Params(d, TRUE, JStr(PrlMacA))]],
      [State |-> "running", OS |-> "linux", guest |-> MainGuest,
       Hardware |-> [d \in {Net0} |-> Params(d, TRUE, JStr(ShortMac))]] }

LoopInventories ==
    UNION { { [i \in 1..n |->
                 [ID |-> VMId(i), Name |-> VMName(i), State |-> t[i].State,
                  OS |-> t[i].OS, Hardware |-> t[i].Hardware,
                  guest |-> t[i].guest]]
              : t \in [1..n -> LoopTemplates] }
            : n \in 0..MaxVMs }

InitLoop ==
    /\ pc = "start"
    /\ args = [help |-> FALSE, ask |-> FALSE, user |-> <<>>]
    /\ \E inv \in LoopInventories :
          prlctl = [err |-> FALSE, json |-> TRUE, list |-> inv]
    /\ vmIdx = 0
    /\ lastProbe = NoProbe
    /\ availableIps = <<>>
    /\ lb = NewListBox(<<>>)
    /\ term = <<80, 24>>
    /\ holders = {}
    /\ lbRet = NoResult
    /\ name = <<>>
    /\ askRet = NoAskResult
    /\ lbEv = NoEvent
    /\ out = <<>>
    /\ launched = NoLaunch
    /\ crash = ""
    /\ probed = <<>>
    /\ norm = NoNorm
    /\ scan = NoScan

NextLoop ==
    \/ MainStart
    \/ MainLoop
    \/ MainMenu

SpecLoop == InitLoop /\ [][NextLoop]_vars

(***************************************************************************)
(* Properties.                                                             *)
(***************************************************************************)
DownKeys == {"KeyArrowDown", "KeyArrowRight", "KeyPgdn", "MouseWheelDown"}
BackspaceKeys == {"KeyBackspace", "KeyBackspace2", "KeyDelete"}

\* C1: while the list view is displayed with non-empty content, the
\* selection index is in [0, len(content)-1], whatever key, mouse-wheel and
\* resize events came before.
C1_SelectionInRange ==
    (pc = "list" /\ Len(lb.content) > 0)
        => (lb.selectIndex >= 0 /\ lb.selectIndex <= Len(lb.content) - 1)

\* a down-type event has just been handled with the selection on the last
\* of several lines
C1_Witness ==
    /\ pc = "list"
    /\ Len(lb.content) >= 2
    /\ lb.selectIndex = Len(lb.content) - 1
    /\ lbEv.key \in DownKeys

\* C2: a backspace/delete event on a buffer of length 0 or 1 is not an
\* error: the prompt never fails at the slice of line 487.
C2_BackspaceIsNoError == crash # "askForUsername:487"

\* C3: when the operator cancels the username prompt (escape or interrupt
\* key), the remote shell is not launched.
C3_CancelledPromptNoShell ==
    askRet.by \in {"escape", "interrupt"} => ~launched.ran

\* C4: the correlator's output for one VM never holds two entries with the
\* same adapter key.
C4_OneAddressPerAdapter ==
    \A i, j \in 1..Len(lastProbe.addrs) :
        i # j => lastProbe.addrs[i].Name # lastProbe.addrs[j].Name

\* the lowercase colon-separated form of a 12-digit hypervisor MAC
NormalizedMac(m) ==
    [i \in 1..17 |-> IF i % 3 = 0 THEN ":" ELSE LowerCh(m[i - (i \div 3)])]

\* C5: every entry the correlator produces names an adapter whose key
\* starts with "net", whose enabled flag is true and whose normalized MAC
\* equals the interface record's MAC.
C5_OnlyEnabledNetAdapters ==
    \A i \in 1..Len(lastProbe.addrs) :
        LET a == lastProbe.addrs[i]
            params == VMList[1].Hardware[a.Name]
        IN  /\ SubSeq(a.Name, 1, 3) = <<"n", "e", "t">>
            /\ params.enabled = JBool(TRUE)
            /\ params.mac.t = "string"
            /\ Len(params.mac.v) = 12
            /\ a.IP.Mac = NormalizedMac(params.mac.v)

\* an entry was produced although the map also holds an adapter that is
\* disabled or not net-prefixed and whose MAC matches a record
C5_Witness ==
    /\ Len(lastProbe.addrs) >= 1
    /\ \E d \in DOMAIN VMList[1].Hardware :
         LET params == VMList[1].Hardware[d]
         IN  /\ (params.enabled = JBool(FALSE) \/ SubSeq(d, 1, 3) # <<"n", "e", "t">>)
             /\ params.mac.t = "string"
             /\ Len(params.mac.v) = 12
             /\ \E k \in 1..Len(lastProbe.ips) :
                  lastProbe.ips[k].Mac = NormalizedMac(params.mac.v)

\* whether the guest's whereis reports a path for cmd
CommandFound(cmd) == VMList[1].guest.whereis[cmd] = WhereisFound(cmd)

WhereisIfconfig == <<"whereis", "ifconfig">>
WhereisIp == <<"whereis", "ip">>
RunIfconfig == <<"ifconfig">>
RunIpShow == <<"ip", "address", "show">>

\* C6 as stated: the modern command is probed first, and used with its
\* parser when both commands exist.
C6_ModernProbedFirst ==
    lastProbe.log # <<>>
        => /\ lastProbe.log[1] = WhereisIp
           /\ (CommandFound("ip") /\ CommandFound("ifconfig"))
                 => (lastProbe.log[Len(lastProbe.log)] = RunIpShow
                     /\ ~lastProbe.isIfconfig)

\* C6 amended: the legacy command (ifconfig) is probed first; when it
\* exists it is the one invoked and its parser the one applied; the modern
\* command (ip address show) is probed and used only when the legacy probe
\* fails.
C6_LegacyProbedFirst ==
    lastProbe.log # <<>>
        => /\ lastProbe.log[1] = WhereisIfconfig
           /\ CommandFound("ifconfig")
                 => (lastProbe.log = <<WhereisIfconfig, RunIfconfig>>
                     /\ lastProbe.isIfconfig)
           /\ (~CommandFound("ifconfig") /\ CommandFound("ip"))
                 => (lastProbe.log = <<WhereisIfconfig, WhereisIp, RunIpShow>>
                     /\ ~lastProbe.isIfconfig)
           /\ (~CommandFound("ifconfig") /\ ~CommandFound("ip"))
                 => (lastProbe.log = <<WhereisIfconfig, WhereisIp>>
                     /\ lastProbe.err = NoCommandErr)

\* both commands exist, ifconfig was run and its output parsed with the
\* legacy patterns (a dotted-quad mask), and an address was resolved
C6_Witness ==
    /\ CommandFound("ip") /\ CommandFound("ifconfig")
    /\ lastProbe.log = <<WhereisIfconfig, RunIfconfig>>
    /\ \E k \in 1..Len(lastProbe.ips) : lastProbe.ips[k].Mask = "255.255.255.0"
    /\ Len(lastProbe.addrs) >= 1

\* C7: when the list view closes with an outcome other than Ok, the remote
\* shell is never launched and the username prompt never opened; on the
\* interrupt key the cancellation notice has been printed.
C7_NotOkNoShellNoPrompt ==
    lbRet.by \in {"interrupt", "escape", "quit", "initfail", "fault"}
        => /\ ~launched.ran
           /\ pc = "done"
           /\ askRet = NoAskResult
           /\ holders = {}
           /\ lbRet.by = "interrupt"
                 => (out # <<>> /\ out[Len(out)] = CancelNotice)

\* the list view was closed by the interrupt key with --ask set, and the
\* run has ended
C7_Witness ==
    /\ lbRet.by = "interrupt"
    /\ flags.ask
    /\ pc = "done"
    /\ out = <<CancelNotice>>

CtrlCEvent == KeyEvent("KeyCtrlC", NoCh)
EscEvent == KeyEvent("KeyEsc", NoCh)
QuitEvents == {KeyEvent(NoKey, "q"), KeyEvent(NoKey, "Q")}

\* what the caller receives from displayAndSelect when ev closes the view
Returned(ev) ==
    LET r == listKey(lb, term, ev).ret[1] IN <<r.index, r.err>>

\* C8 as stated: in every state of the list view, what is returned for the
\* interrupt key differs from what is returned for escape or quit.
C8_InterruptDistinct ==
    pc = "list"
        => \A ev \in {EscEvent} \cup QuitEvents : Returned(CtrlCEvent) # Returned(ev)

\* C8 amended: the interrupt key, the escape key and the quit character
\* all close the list view with the same outcome value, errCtrlC, which
\* differs from the Ok outcome (nil) and from the fault outcomes; the
\* results differ at most in the index (the current selection for the
\* interrupt key, 0 for escape and quit).
C8_CancelOutcomes ==
    /\ lbRet.by \in {"interrupt", "escape", "quit"} => lbRet.err = errCtrlC
    /\ lbRet.by = "interrupt" => lbRet.index = lb.selectIndex
    /\ lbRet.by \in {"escape", "quit"} => lbRet.index = 0
    /\ lbRet.by = "enter" => lbRet.err = ""
    /\ lbRet.by \in {"initfail", "fault"} => lbRet.err \notin {"", errCtrlC}

\* escape closed the list view with a line other than the first selected
C8_Witness ==
    /\ lbRet.by = "escape"
    /\ lbRet.err = errCtrlC
    /\ lb.selectIndex > 0

\* C9: with --ask, when the prompt cannot acquire the surface, the shell is
\* launched with the --user value ("root" if unset) and the selected
\* entry's IP.
C9_PromptInitFailFallsBack ==
    askRet.by = "initfail"
        => /\ launched.ran
           /\ launched.user = (IF args.user = <<>> THEN <<"r", "o", "o", "t">>
                               ELSE args.user[1])
           /\ launched.ip = availableIps[lbRet.index + 1].IP.Ip
           /\ pc \in {"ssh", "done"}

\* the prompt failed to acquire the surface, no --user was given, and the
\* shell runs as root against the second entry
C9_Witness ==
    /\ askRet.by = "initfail"
    /\ args.ask /\ args.user = <<>>
    /\ pc = "ssh"
    /\ lbRet.index = 1
    /\ launched.user = RootUser

\* C10: the surface is not held when the shell is launched; a session that
\* has returned holds nothing, whatever ended it; the list view and the
\* prompt never hold the surface together.
C10_SurfaceReleased ==
    /\ launched.ran => holders = {}
    /\ "list" \in holders => pc = "list"
    /\ "prompt" \in holders => pc = "prompt"
    /\ Cardinality(holders) <= 1

\* the shell runs after both sessions held the surface and gave it back
C10_Witness ==
    /\ pc = "ssh"
    /\ lbRet.by = "enter"
    /\ askRet.by = "enter"
    /\ holders = {}

\* C11: when the inventory yields no VM, or every VM of it was passed over,
\* so that main's list of addresses is empty, the run prints the notice
\* that no VM is available and ends there: the terminal surface is never
\* acquired, no selection and no prompt takes place, no shell is launched.
C11_EmptyListStopsRun ==
    (availableIps = <<>>) =>
        /\ pc \in {"start", "loop", "done", "crashed"}
        /\ holders = {}
        /\ lbRet = NoResult
        /\ askRet = NoAskResult
        /\ ~launched.ran
        /\ (pc = "done" /\ ~flags.help) =>
              /\ Len(out) >= 1
              /\ out[Len(out)] = NoVmNotice
              /\ \A i \in 1..(Len(out) - 1) : out[i] = NotInstalledNotice

\* a run over two VMs, both passed over, has ended with the notice
C11_Witness ==
    /\ pc = "done"
    /\ Len(VMList) = 2
    /\ vmIdx = 2
    /\ availableIps = <<>>
    /\ out = <<NoVmNotice>>
    /\ holders = {}
    /\ ~launched.ran

\* C12 as stated: for every 12-hex-digit MAC in any letter case the
\* normalisation gives the lowercase colon-separated form, gives the same
\* for the upper-case and the lower-case spelling, and is idempotent:
\* normalising an already normalised value gives the same value.
C12_IdempotentAndCaseInsensitive ==
    /\ norm.stage \in {"normalized", "again"} =>
          /\ norm.out = NormalizedMac(norm.in)
          /\ norm.ofUpper = norm.ofLower
    /\ norm.stage = "again" => norm.again = norm.out

\* C12 amended: for every 12-hex-digit MAC in any letter case the
\* normalisation gives the lowercase colon-separated form and gives the
\* same for the upper-case and the lower-case spelling; it is not
\* idempotent: applied to its own result it cuts that 17-character value
\* at the same fixed offsets and gives a different, 22-character one.
C12_CaseInsensitiveNotIdempotent ==
    /\ norm.stage \in {"normalized", "again"} =>
          /\ norm.out = NormalizedMac(norm.in)
          /\ norm.ofUpper = norm.out
          /\ norm.ofLower = norm.out
    /\ norm.stage = "again" =>
          /\ norm.again # norm.out
          /\ Len(norm.again) = Len(norm.out) + 5

\* a MAC with letters of both cases went through the normalisation twice
C12_Witness ==
    /\ norm.stage = "again"
    /\ norm.in # UpperCase(norm.in)
    /\ norm.in # LowerCase(norm.in)
    /\ norm.out = NormalizedMac(norm.in)

\* what opens a block of lines.  In the words of the specification a line
\* without leading whitespace that matches `<index>: <name>: ...` does so
\* in the modern format, and any non-indented line in the legacy format.
IsMarkerLine(s, isIfconfig) ==
    /\ s.k # "blank"
    /\ ~s.indent
    /\ isIfconfig \/ beginLinePattern(s) # <<>>

\* what opens a block of lines for the scanner: any non-empty line that
\* does not begin with a space or a tab
IsUnindentedLine(s, isIfconfig) == s.k # "blank" /\ ~s.indent

\* the i-th smallest member of a set of positions
IthOf(S, i) == CHOOSE x \in S : Cardinality({y \in S : y < x}) = i - 1
LastOf(S) == CHOOSE x \in S : \A y \in S : y <= x

\* the records a text stands for when IsM tells its block-opening lines:
\* one per such line, in their order, each with the name of its opening
\* line and the fields of the last inet line and of the last link line
\* between that line and the next opening line (or the end of the text)
RecordsOf(lines, isIfconfig, IsM(_, _)) ==
    LET opens == {p \in 1..Len(lines) : IsM(lines[p], isIfconfig)}
        inet(s) == IF isIfconfig THEN inetLinePattern2(s) ELSE inetLinePattern(s)
        link(s) == IF isIfconfig THEN etherLinkPattern(s) ELSE linkLinePattern(s)
        block(p) == {j \in (p + 1)..Len(lines) :
                        /\ lines[j].indent
                        /\ \A q \in opens : q > p => j < q}
        rec(p) ==
            LET inets == {j \in block(p) : inet(lines[j]) # <<>>}
                links == {j \in block(p) :
                             inet(lines[j]) = <<>> /\ link(lines[j]) # <<>>}
                head == beginLinePattern(lines[p])
            IN  [IfName |-> IF head # <<>> THEN head[2] ELSE "",
                 Ip |-> IF inets = {} THEN "" ELSE inet(lines[LastOf(inets)])[1],
                 Mask |-> IF inets = {} THEN "" ELSE inet(lines[LastOf(inets)])[2],
                 Broadcast |->
                     IF inets = {} THEN "" ELSE inet(lines[LastOf(inets)])[3],
                 LinkType |->
                     IF links = {} THEN ""
                     ELSE IF isIfconfig THEN "ether"
                     ELSE link(lines[LastOf(links)])[1],
                 Mac |-> IF links = {} THEN <<>>
                         ELSE IF isIfconfig THEN link(lines[LastOf(links)])[1]
                         ELSE link(lines[LastOf(links)])[2]]
    IN  [i \in 1..Cardinality(opens) |-> rec(IthOf(opens, i))]

\* C13 as stated: for any sequence of lines in one format the scanner
\* gives exactly one record per interface marker line, in marker order,
\* each with the link and inet fields of the lines between its marker and
\* the next one (or the end of input); lines before the first marker are
\* dropped and the last pending record is flushed at the end of input.
C13_OneRecordPerMarker ==
    scan.stage = "scanned" =>
        scan.ips = RecordsOf(scan.lines, scan.isIfconfig, IsMarkerLine)

\* C13 amended: for any sequence of lines in one format the scanner gives
\* exactly one record per non-empty line that does not begin with a space
\* or a tab, whether or not that line matches the marker pattern (the
\* record's name is empty when it does not), in the order of these lines,
\* each with the inet and link fields of the lines between its opening
\* line and the next one (or the end of input); lines before the first
\* such line are dropped and the last pending record is flushed at the end
\* of input.
C13_OneRecordPerUnindentedLine ==
    scan.stage = "scanned" =>
        scan.ips = RecordsOf(scan.lines, scan.isIfconfig, IsUnindentedLine)

\* a text with a link line before the first marker and two markers, the
\* last of them with an address line after it, was scanned into two records
C13_Witness ==
    /\ scan.stage = "scanned"
    /\ Len(scan.lines) = MaxLines
    /\ scan.lines[1].indent
    /\ linkLinePattern(scan.lines[1]) # <<>>
    /\ beginLinePattern(scan.lines[2]) # <<>>
    /\ beginLinePattern(scan.lines[3]) # <<>>
    /\ inetLinePattern(scan.lines[MaxLines]) # <<>>
    /\ Len(scan.ips) = 2
    /\ scan.ips[1].Ip = ""
    /\ scan.ips[2].Ip # ""

\* the length of the longest line of a content
LongestLine(content) ==
    LET lens == {Len(content[i]) : i \in 1..Len(content)}
    IN  CHOOSE n \in lens : \A k \in lens : k <= n

\* C14: after every redraw of the list view the box height is the number
\* of content lines plus 2 and the box width is the larger of the longest
\* content line's length plus 12 and the title's length, whatever the
\* order of the lines.
C14_BoxGeometry ==
    (pc = "list" /\ lb.content # <<>>) =>
        /\ lb.height = Len(lb.content) + 2
        /\ lb.width = IF LongestLine(lb.content) + 12 >= Len(lb.title)
                      THEN LongestLine(lb.content) + 12
                      ELSE Len(lb.title)

\* a VM that is not running, runs an unsupported OS, or has neither
\* listing command
Unprobeable(vm) ==
    \/ vm.State # "running"
    \/ vm.OS \notin {"linux", "ubuntu"}
    \/ \A c \in {"ifconfig", "ip"} : vm.guest.whereis[c] # WhereisFound(c)

\* the addresses of the probes that returned without an error
AddressesOfSucceeded ==
    Concat([i \in 1..Len(probed) |->
               IF probed[i].err = "" /\ ~probed[i].panic
               THEN probed[i].addrs ELSE <<>>])

\* C15: a VM that is not running, runs an unsupported OS or has neither
\* listing command contributes no entry and does not stop the run: its
\* probe returns an error with no address, the loop goes on to the next
\* VM, and main's list is exactly the concatenation, in inventory order,
\* of the addresses of the VMs whose probe succeeded.
C15_SkippedVMsContributeNothing ==
    /\ Len(probed) = vmIdx
    /\ \A i \in 1..Len(probed) :
          Unprobeable(VMList[i]) =>
              /\ probed[i].err # ""
              /\ probed[i].addrs = <<>>
              /\ ~probed[i].panic
    /\ (vmIdx >= 1 /\ Unprobeable(VMList[vmIdx])) =>
          /\ pc # "crashed"
          /\ vmIdx < Len(VMList) => pc = "loop"
    /\ availableIps = AddressesOfSucceeded

\* of two VMs the first has neither listing command; the menu is about to
\* be built from the second one's two addresses alone
C15_Witness ==
    /\ pc = "list_init"
    /\ Len(VMList) = 2
    /\ VMList[1].State = "running"
    /\ VMList[1].OS = "linux"
    /\ Unprobeable(VMList[1])
    /\ ~Unprobeable(VMList[2])
    /\ Len(availableIps) = 2
    /\ \A i \in 1..2 : availableIps[i].VM.ID = VMList[2].ID

\* C16: an error event delivered while the username prompt is editing
\* closes the prompt with a fault; the prompt does not stay in editing.
C16_ErrorEventClosesPrompt ==
    pc = "prompt" =>
        LET s == promptEvent(name, ErrorEvent)
        IN  /\ s.ret # <<>>
            /\ s.ret[1].err # ""

\* the events that ask for the row above and for the row below
UpEvents ==
    { KeyEvent(key, NoCh) : key \in {"KeyArrowUp", "KeyArrowLeft", "KeyPgup"} }
      \cup { KeyEvent(NoKey, ch) : ch \in {"k", "K"} }
      \cup { [type |-> "EventMouse", key |-> "MouseWheelUp", ch |-> NoCh] }

DownEvents ==
    { KeyEvent(key, NoCh) : key \in {"KeyArrowDown", "KeyArrowRight", "KeyPgdn"} }
      \cup { KeyEvent(NoKey, ch) : ch \in {"j", "J"} }
      \cup { [type |-> "EventMouse", key |-> "MouseWheelDown", ch |-> NoCh] }

\* C17: every navigation event taken by the list view moves the selection
\* by one row and never wraps around: up from row i > 0 gives i - 1 and
\* from row 0 gives 0, down from row i < len - 1 gives i + 1 and from the
\* last row gives the last row; page up and page down move by one row like
\* the arrows; the view stays open and its content is unchanged.
C17_NavigationMovesOneRow ==
    [][ (pc = "list" /\ lbEv' \in UpEvents \cup DownEvents) =>
            /\ pc' = "list"
            /\ lb'.content = lb.content
            /\ lbEv' \in UpEvents =>
                  lb'.selectIndex =
                      IF lb.selectIndex > 0 THEN lb.selectIndex - 1 ELSE 0
            /\ lbEv' \in DownEvents =>
                  lb'.selectIndex =
                      IF lb.selectIndex < Len(lb.content) - 1
                      THEN lb.selectIndex + 1
                      ELSE Len(lb.content) - 1 ]_vars

\* page up was taken on the first of two or more rows, and the selection
\* is the first row still
C17_Witness ==
    /\ pc = "list"
    /\ lbEv = KeyEvent("KeyPgup", NoCh)
    /\ Len(lb.content) >= 2
    /\ lb.selectIndex = 0

\* C18: the prompt's buffer changes only on character input and on
\* backspace/delete; a key event that carries no character and is none of
\* backspace, delete, enter, escape and interrupt (an arrow or a function
\* key) leaves it unchanged, so the buffer and the submitted text hold
\* nothing but characters the operator typed.
C18_OnlyTypedCharacters ==
    /\ \A i \in 1..Len(name) : name[i] \in PromptChars
    /\ \A i \in 1..Len(askRet.name) : askRet.name[i] \in PromptChars

\* an adapter whose "mac" is missing, is no string, or is shorter than the
\* twelve digits of a MAC
HasBadMac(params) == Len(AsString(params.mac)) < 12

\* C19: a running Linux VM with an enabled adapter whose key starts with
\* "net" and whose MAC is missing, not a string or shorter than 12
\* characters does not abort the run: the probe returns, that adapter is
\* named by no entry, and the VM's other adapters are matched as usual.
C19_BadMacDoesNotAbort ==
    /\ pc # "crashed"
    /\ crash = ""
    /\ \A i \in 1..Len(lastProbe.addrs) :
          ~HasBadMac(VMList[1].Hardware[lastProbe.addrs[i].Name])

\* C20: every address main collects for the menu, and every address a shell
\* is launched for, is a non-empty IPv4 address: an interface record whose
\* MAC matches an adapter but which has no recognized inet line becomes
\* neither a menu entry nor a shell target.
C20_EntriesHaveAnAddress ==
    /\ \A i \in 1..Len(availableIps) : availableIps[i].IP.Ip # ""
    /\ launched.ran => launched.ip # ""

====
